---- MODULE Spec2Model ----
(***************************************************************************)
(* Model of sim/main.c: the gate utilities (CX, H, MResetZ, RecordResult), *)
(* the two circuit programs (random_numbers_over_500, full_entangle) and   *)
(* the entry point, driving a backend through the QISA intrinsics.         *)
(* One step of the model is one intrinsic call or one control-flow         *)
(* decision of the C code.  The backend is an oracle: mresetz stores a bit *)
(* chosen by the backend in the named slot, read_result returns the bit    *)
(* stored in a slot, result_record_output appends the slot's value to the  *)
(* output stream.                                                          *)
(***************************************************************************)
EXTENDS Integers, Sequences, FiniteSets, TLC

\* ---------------------------------------------------------------- bounds
\* Cap on the number of Sampling iterations whose bits the backend chooses
\* freely (the C loop has no cap); scripted iterations do not count.
MaxAttempts == 1

\* ------------------------------------------------------ program constants
\* for (int i = 0; i < 9; i++)
NumQubits == 9
\* for (int i = 8; i >= 0; i--)
TopIndex == 8
\* while (result < 500)
Threshold == 500
\* (void*)0, the label of RecordResult
NullLabel == 0

\* A slot no measurement has written yet / an unused call operand.
NoBit == -1
None == -1

Indices == 0 .. (NumQubits - 1)

\* ------------------------------------------------------------ arithmetic
RECURSIVE Pow2(_)
Pow2(n) == IF n = 0 THEN 1 ELSE 2 * Pow2(n - 1)

\* x << n on a C int; the operands here are a bit and an index below 9, so
\* the product stays far below the width of int
Shl(x, n) == x * Pow2(n)

\* x | y on non-negative ints, bit by bit
RECURSIVE BitOr(_, _)
BitOr(x, y) ==
    IF x = 0 THEN y
    ELSE IF y = 0 THEN x
    ELSE (IF (x % 2 = 1) \/ (y % 2 = 1) THEN 1 ELSE 0)
         + 2 * BitOr(x \div 2, y \div 2)

\* bit q of the integer v
BitOf(v, q) == (v \div Pow2(q)) % 2

\* ------------------------------------------------------------- variables
VARIABLES
    run,        \* the routine the run was started at
    script,     \* backend: the accumulators it is scripted to produce first
    pc,         \* position in the C code
    stack,      \* return positions of the calls in progress
    result,     \* random_numbers_over_500: int result
    mai_result, \* measure_as_int: int result
    i,          \* the loop index of the for loop in progress
    control,    \* CX: parameter control
    target,     \* CX: parameter target
    qubit,      \* MResetZ: parameter qubit
    slot,       \* MResetZ: parameter result
    retval,     \* value returned by the last MResetZ call
    slots,      \* backend: the bit stored in each classical result slot
    output,     \* backend: the output record stream
    trace,      \* every intrinsic call made so far, in order
    bits,       \* the (qubit, bit) pairs MResetZ returned in this iteration
    attempts,   \* Sampling iterations started
    rejects     \* Sampling iterations completed with accumulator < Threshold

vars == <<run, script, pc, stack, result, mai_result, i, control, target,
          qubit, slot, retval, slots, output, trace, bits, attempts, rejects>>

\* The backends: the empty script chooses every bit freely; a scripted
\* backend first produces the bits of the listed accumulators, one per
\* Sampling iteration (256 then 500 is the two-attempt test scenario).
Scripts == { <<>>, <<256, 500>>, <<499, 0, 511>> }

\* ------------------------------------------------- the intrinsic interface
Call(op, a, b) == [op |-> op, a |-> a, b |-> b]

\* void __quantum__qis__x__body(void *qubit)
qis_x(tr, q) == Append(tr, Call("x", q, None))

\* void __quantum__qis__h__body(void *qubit)
qis_h(tr, q) == Append(tr, Call("h", q, None))

\* void __quantum__qis__cz__body(void *control, void *target)
qis_cz(tr, c, t) == Append(tr, Call("cz", c, t))

\* void __quantum__qis__mresetz__body(void *qubit, void *result)
qis_mresetz(tr, q, s) == Append(tr, Call("mresetz", q, s))

\* int __quantum__qis__read_result__body(void *result)
qis_read_result(tr, s) == Append(tr, Call("read_result", s, None))

\* void __quantum__rt__array_record_output(long long size, void* label)
rt_array_record_output(tr, size, l) ==
    Append(tr, Call("array_record_output", size, l))

\* void __quantum__rt__result_record_output(void *rid, void *label)
rt_result_record_output(tr, s, l) == Append(tr, Call("result_record_output", s, l))

\* The bits the backend may store when qubit q is measured.
Outcomes(q) ==
    IF attempts \in 1 .. Len(script)
    THEN {BitOf(script[attempts], q)}
    ELSE {0, 1}

\* The entry appended to the output stream for slot s with label l.
Record(s, l) == [slot |-> s, label |-> l, value |-> slots[s]]

\* ------------------------------------------------------------------ Init
\* A run starts at the entry point, with any backend, or at one routine
\* called on its own: a circuit program (the sampler with a scripted
\* backend) or CX with any pair of qubit indices.
Init ==
    /\ run \in {"ENTRYPOINT__main", "random_numbers_over_500",
                "full_entangle", "CX"}
    /\ script \in (CASE run = "ENTRYPOINT__main" -> Scripts
                     [] run = "random_numbers_over_500" -> Scripts \ {<<>>}
                     [] OTHER -> {<<>>})
    /\ pc = run
    /\ stack = <<>>
    /\ result = 0
    /\ mai_result = 0
    /\ i = 0
    /\ control \in (IF run = "CX" THEN Indices ELSE {0})
    /\ target \in (IF run = "CX" THEN Indices ELSE {0})
    /\ qubit = 0
    /\ slot = 0
    /\ retval = 0
    /\ slots = [s \in Indices |-> NoBit]
    /\ output = <<>>
    /\ trace = <<>>
    /\ bits = <<>>
    /\ attempts = 0
    /\ rejects = 0

\* Return to the caller: the position on top of the stack, "done" if none.
ReturnPc == IF stack = <<>> THEN "done" ELSE Head(stack)
Pop == IF stack = <<>> THEN <<>> ELSE Tail(stack)

\* ------------------------------------------------------- gate utilities
\* CX, line 16: H on the target
CX_h_before ==
    /\ pc = "CX"
    /\ trace' = qis_h(trace, target)
    /\ pc' = "CX_cz"
    /\ UNCHANGED <<run, script, stack, result, mai_result, i, control, target,
                   qubit, slot, retval, slots, output, bits, attempts, rejects>>

\* Mutation of line 17: control and target exchanged.
CX_cz_Swapped ==
    /\ pc = "CX_cz"
    /\ trace' = qis_cz(trace, target, control)
    /\ pc' = "CX_h_after"
    /\ UNCHANGED <<run, script, stack, result, mai_result, i, control, target,
                   qubit, slot, retval, slots, output, bits, attempts, rejects>>

\* CX, line 17: controlled phase
CX_cz ==
    /\ pc = "CX_cz"
    /\ trace' = qis_cz(trace, control, target)
    /\ pc' = "CX_h_after"
    /\ UNCHANGED <<run, script, stack, result, mai_result, i, control, target,
                   qubit, slot, retval, slots, output, bits, attempts, rejects>>

\* CX, line 18: H on the target, then return
CX_h_after ==
    /\ pc = "CX_h_after"
    /\ trace' = qis_h(trace, target)
    /\ pc' = ReturnPc
    /\ stack' = Pop
    /\ UNCHANGED <<run, script, result, mai_result, i, control, target,
                   qubit, slot, retval, slots, output, bits, attempts, rejects>>

\* void H(int qubit): one intrinsic call
H(tr, q) == qis_h(tr, q)

\* MResetZ, line 26: the backend measures, stores a bit, resets the qubit
MResetZ_measure ==
    /\ pc = "MResetZ"
    /\ \E b \in Outcomes(qubit) :
          slots' = [slots EXCEPT ![slot] = b]
    /\ trace' = qis_mresetz(trace, qubit, slot)
    /\ pc' = "MResetZ_read"
    /\ UNCHANGED <<run, script, stack, result, mai_result, i, control, target,
                   qubit, slot, retval, output, bits, attempts, rejects>>

\* Mutation of line 27: a constant returned without reading the slot.
MResetZ_read_Omitted ==
    /\ pc = "MResetZ_read"
    /\ retval' = 0
    /\ bits' = Append(bits, [q |-> qubit, b |-> 0])
    /\ pc' = ReturnPc
    /\ stack' = Pop
    /\ UNCHANGED <<run, script, result, mai_result, i, control, target,
                   qubit, slot, slots, output, trace, attempts, rejects>>

\* MResetZ, line 27: read the slot and return its bit
MResetZ_read ==
    /\ pc = "MResetZ_read"
    /\ trace' = qis_read_result(trace, slot)
    /\ retval' = slots[slot]
    /\ bits' = Append(bits, [q |-> qubit, b |-> slots[slot]])
    /\ pc' = ReturnPc
    /\ stack' = Pop
    /\ UNCHANGED <<run, script, result, mai_result, i, control, target,
                   qubit, slot, slots, output, attempts, rejects>>

\* Mutation of line 31: the slot is read before it is recorded.
RecordResult_Reading(tr, s) ==
    rt_result_record_output(qis_read_result(tr, s), s, NullLabel)

\* void RecordResult(int result): one intrinsic call with the null label
RecordResult(tr, s) == rt_result_record_output(tr, s, NullLabel)

\* --------------------------------------------- random_numbers_over_500
\* line 52: int result = 0
rn_enter ==
    /\ pc = "random_numbers_over_500"
    /\ result' = 0
    /\ pc' = "rn_while"
    /\ UNCHANGED <<run, script, stack, mai_result, i, control, target,
                   qubit, slot, retval, slots, output, trace, bits, attempts,
                   rejects>>

\* Mutations of the loop test: off by one, inverted, never satisfied by a
\* 9-bit value, and accepting only values above the threshold.
LoopAgain_OffByOne(r) == r < Threshold - 1
LoopAgain_Inverted(r) == r > Threshold
LoopAgain_Unreachable(r) == r < 512
LoopAgain_Strict(r) == r <= Threshold

\* The loop test of line 53.
LoopAgain(r) == r < Threshold

\* Mutation of line 57: the records announced by an array header.
rn_while_WithHeader ==
    /\ pc = "rn_while"
    /\ IF LoopAgain(result)
       THEN /\ attempts < Len(script) + MaxAttempts
            /\ attempts' = attempts + 1
            /\ i' = 0
            /\ pc' = "make_random_state"
            /\ UNCHANGED trace
       ELSE /\ trace' = rt_array_record_output(trace, NumQubits, NullLabel)
            /\ i' = TopIndex
            /\ pc' = "rn_record"
            /\ UNCHANGED attempts
    /\ UNCHANGED <<run, script, stack, result, mai_result, control, target,
                   qubit, slot, retval, slots, output, bits, rejects>>

\* Mutation of line 53: the loop gives up after two iterations.
rn_while_Capped ==
    /\ pc = "rn_while"
    /\ IF LoopAgain(result) /\ attempts < 2
       THEN /\ attempts < Len(script) + MaxAttempts
            /\ attempts' = attempts + 1
            /\ i' = 0
            /\ pc' = "make_random_state"
       ELSE /\ i' = TopIndex
            /\ pc' = "rn_record"
            /\ UNCHANGED attempts
    /\ UNCHANGED <<run, script, stack, result, mai_result, control, target,
                   qubit, slot, retval, slots, output, trace, bits, rejects>>

\* line 53: while (result < 500); line 54 enters make_random_state,
\* line 57 starts the record loop
rn_while ==
    /\ pc = "rn_while"
    /\ IF LoopAgain(result)
       THEN /\ attempts < Len(script) + MaxAttempts
            /\ attempts' = attempts + 1
            /\ i' = 0
            /\ pc' = "make_random_state"
       ELSE /\ i' = TopIndex
            /\ pc' = "rn_record"
            /\ UNCHANGED attempts
    /\ UNCHANGED <<run, script, stack, result, mai_result, control, target,
                   qubit, slot, retval, slots, output, trace, bits, rejects>>

\* Mutation of line 39: H applied twice to each qubit.
make_random_state_Twice ==
    /\ pc = "make_random_state"
    /\ IF i < NumQubits
       THEN /\ trace' = H(H(trace, i), i)
            /\ i' = i + 1
            /\ UNCHANGED <<pc, mai_result, bits>>
       ELSE /\ mai_result' = 0
            /\ bits' = <<>>
            /\ i' = 0
            /\ pc' = "measure_as_int"
            /\ UNCHANGED trace
    /\ UNCHANGED <<run, script, stack, result, control, target, qubit, slot,
                   retval, slots, output, attempts, rejects>>

\* Mutation of line 44: the accumulator keeps its value across calls.
make_random_state_NoReset ==
    /\ pc = "make_random_state"
    /\ IF i < NumQubits
       THEN /\ trace' = H(trace, i)
            /\ i' = i + 1
            /\ UNCHANGED <<pc, mai_result, bits>>
       ELSE /\ bits' = <<>>
            /\ i' = 0
            /\ pc' = "measure_as_int"
            /\ UNCHANGED <<trace, mai_result>>
    /\ UNCHANGED <<run, script, stack, result, control, target, qubit, slot,
                   retval, slots, output, attempts, rejects>>

\* Mutation of line 38: the loop stops one qubit short.
make_random_state_Short ==
    /\ pc = "make_random_state"
    /\ IF i < NumQubits - 1
       THEN /\ trace' = H(trace, i)
            /\ i' = i + 1
            /\ UNCHANGED <<pc, mai_result, bits>>
       ELSE /\ mai_result' = 0
            /\ bits' = <<>>
            /\ i' = 0
            /\ pc' = "measure_as_int"
            /\ UNCHANGED trace
    /\ UNCHANGED <<run, script, stack, result, control, target, qubit, slot,
                   retval, slots, output, attempts, rejects>>

\* lines 38-40: for (i = 0; i < 9; i++) H(i); on exit line 55 calls
\* measure_as_int, whose line 44 sets result = 0
make_random_state ==
    /\ pc = "make_random_state"
    /\ IF i < NumQubits
       THEN /\ trace' = H(trace, i)
            /\ i' = i + 1
            /\ UNCHANGED <<pc, mai_result, bits>>
       ELSE /\ mai_result' = 0
            /\ bits' = <<>>
            /\ i' = 0
            /\ pc' = "measure_as_int"
            /\ UNCHANGED trace
    /\ UNCHANGED <<run, script, stack, result, control, target, qubit, slot,
                   retval, slots, output, attempts, rejects>>

\* Mutation of line 46: every qubit measured into slot 0.
measure_as_int_SameSlot ==
    /\ pc = "measure_as_int"
    /\ IF i < NumQubits
       THEN /\ qubit' = i
            /\ slot' = 0
            /\ stack' = <<"mai_accumulate">> \o stack
            /\ pc' = "MResetZ"
            /\ UNCHANGED <<result, rejects>>
       ELSE /\ result' = mai_result
            /\ rejects' = IF mai_result < Threshold THEN rejects + 1 ELSE rejects
            /\ pc' = "rn_while"
            /\ UNCHANGED <<qubit, slot, stack>>
    /\ UNCHANGED <<run, script, mai_result, i, control, target, retval, slots,
                   output, trace, bits, attempts>>

\* line 45-46: for (i = 0; i < 9; i++) call MResetZ(i, i); line 48 returns
\* the accumulator, which line 55 assigns to result
measure_as_int ==
    /\ pc = "measure_as_int"
    /\ IF i < NumQubits
       THEN /\ qubit' = i
            /\ slot' = i
            /\ stack' = <<"mai_accumulate">> \o stack
            /\ pc' = "MResetZ"
            /\ UNCHANGED <<result, rejects>>
       ELSE /\ result' = mai_result
            /\ rejects' = IF mai_result < Threshold THEN rejects + 1 ELSE rejects
            /\ pc' = "rn_while"
            /\ UNCHANGED <<qubit, slot, stack>>
    /\ UNCHANGED <<run, script, mai_result, i, control, target, retval, slots,
                   output, trace, bits, attempts>>

\* line 46: result = result | (MResetZ(i, i) << i), then i++
Accumulate(acc, b, n) == BitOr(acc, Shl(b, n))

mai_accumulate ==
    /\ pc = "mai_accumulate"
    /\ mai_result' = Accumulate(mai_result, retval, i)
    /\ i' = i + 1
    /\ pc' = "measure_as_int"
    /\ UNCHANGED <<run, script, stack, result, control, target, qubit, slot,
                   retval, slots, output, trace, bits, attempts, rejects>>

\* Mutation of the record loop test: slot 0 is left out.
RecordMore_SkipZero(n) == n > 0

\* The test of the record loop of line 57: i >= 0
RecordMore(n) == n >= 0

\* lines 57-59: for (i = 8; i >= 0; i--) RecordResult(i); then return
rn_record ==
    /\ pc = "rn_record"
    /\ IF RecordMore(i)
       THEN /\ trace' = RecordResult(trace, i)
            /\ output' = Append(output, Record(i, NullLabel))
            /\ i' = i - 1
            /\ UNCHANGED <<pc, stack>>
       ELSE /\ pc' = ReturnPc
            /\ stack' = Pop
            /\ UNCHANGED <<trace, output, i>>
    /\ UNCHANGED <<run, script, result, mai_result, control, target, qubit,
                   slot, retval, slots, bits, attempts, rejects>>

\* ------------------------------------------------------- full_entangle
\* Mutation of lines 64-71: the call CX(6, 7) repeated in place of CX(7, 8).
EntangleCalls_Repeated == << <<0, 1>>, <<1, 2>>, <<2, 3>>, <<3, 4>>,
                             <<4, 5>>, <<5, 6>>, <<6, 7>>, <<6, 7>> >>

\* Mutation of lines 64-71: every call shifted up by one qubit.
EntangleCalls_Shifted == << <<1, 2>>, <<2, 3>>, <<3, 4>>, <<4, 5>>,
                            <<5, 6>>, <<6, 7>>, <<7, 8>>, <<8, 9>> >>

\* The CX calls of lines 64-71, in source order.
EntangleCalls == << <<0, 1>>, <<1, 2>>, <<2, 3>>, <<3, 4>>,
                    <<4, 5>>, <<5, 6>>, <<6, 7>>, <<7, 8>> >>

\* line 63: H(0)
fe_H ==
    /\ pc = "full_entangle"
    /\ trace' = H(trace, 0)
    /\ i' = 1
    /\ pc' = "fe_CX"
    /\ UNCHANGED <<run, script, stack, result, mai_result, control, target,
                   qubit, slot, retval, slots, output, bits, attempts, rejects>>

\* lines 64-71: the i-th CX call; after the last one line 72 sets i = 8
fe_CX ==
    /\ pc = "fe_CX"
    /\ IF i <= Len(EntangleCalls)
       THEN /\ control' = EntangleCalls[i][1]
            /\ target' = EntangleCalls[i][2]
            /\ stack' = <<"fe_CX">> \o stack
            /\ i' = i + 1
            /\ pc' = "CX"
       ELSE /\ i' = TopIndex
            /\ pc' = "fe_measure"
            /\ UNCHANGED <<control, target, stack>>
    /\ UNCHANGED <<run, script, result, mai_result, qubit, slot, retval,
                   slots, output, trace, bits, attempts, rejects>>

\* Mutation of line 73: the MResetZ call left out.
fe_measure_Omitted ==
    /\ pc = "fe_measure"
    /\ IF i >= 0
       THEN /\ pc' = "fe_record"
            /\ UNCHANGED stack
       ELSE /\ pc' = ReturnPc
            /\ stack' = Pop
    /\ UNCHANGED <<run, script, result, mai_result, i, control, target, qubit,
                   slot, retval, slots, output, trace, bits, attempts, rejects>>

\* lines 72-73: for (i = 8; i >= 0; i--) call MResetZ(i, i); then return
fe_measure ==
    /\ pc = "fe_measure"
    /\ IF i >= 0
       THEN /\ qubit' = i
            /\ slot' = i
            /\ stack' = <<"fe_record">> \o stack
            /\ pc' = "MResetZ"
       ELSE /\ pc' = ReturnPc
            /\ stack' = Pop
            /\ UNCHANGED <<qubit, slot>>
    /\ UNCHANGED <<run, script, result, mai_result, i, control, target,
                   retval, slots, output, trace, bits, attempts, rejects>>

\* line 74: RecordResult(i), then i--
fe_record ==
    /\ pc = "fe_record"
    /\ trace' = RecordResult(trace, i)
    /\ output' = Append(output, Record(i, NullLabel))
    /\ i' = i - 1
    /\ pc' = "fe_measure"
    /\ UNCHANGED <<run, script, stack, result, mai_result, control, target,
                   qubit, slot, retval, slots, bits, attempts, rejects>>

\* ---------------------------------------------------------- entry point
\* Mutation of lines 80-81: full_entangle() called in place of the sampler.
ENTRYPOINT__main_Entangle ==
    /\ pc = "ENTRYPOINT__main"
    /\ stack' = <<"main_return">> \o stack
    /\ pc' = "full_entangle"
    /\ UNCHANGED <<run, script, result, mai_result, i, control, target, qubit,
                   slot, retval, slots, output, trace, bits, attempts, rejects>>

\* line 81: random_numbers_over_500()
ENTRYPOINT__main ==
    /\ pc = "ENTRYPOINT__main"
    /\ stack' = <<"main_return">> \o stack
    /\ pc' = "random_numbers_over_500"
    /\ UNCHANGED <<run, script, result, mai_result, i, control, target, qubit,
                   slot, retval, slots, output, trace, bits, attempts, rejects>>

\* line 83: return
main_return ==
    /\ pc = "main_return"
    /\ pc' = ReturnPc
    /\ stack' = Pop
    /\ UNCHANGED <<run, script, result, mai_result, i, control, target, qubit,
                   slot, retval, slots, output, trace, bits, attempts, rejects>>

Next ==
    \/ CX_h_before
    \/ CX_cz
    \/ CX_h_after
    \/ MResetZ_measure
    \/ MResetZ_read
    \/ rn_enter
    \/ rn_while
    \/ make_random_state
    \/ measure_as_int
    \/ mai_accumulate
    \/ rn_record
    \/ fe_H
    \/ fe_CX
    \/ fe_measure
    \/ fe_record
    \/ ENTRYPOINT__main
    \/ main_return

Spec == Init /\ [][Next]_vars

\* Every intrinsic call is synchronous and returns, so the single thread of
\* control keeps taking steps while it has one to take.
FairSpec == Init /\ [][Next]_vars /\ WF_vars(Next)

TypeOK ==
    /\ pc \in {"ENTRYPOINT__main", "main_return", "random_numbers_over_500",
               "rn_while", "make_random_state", "measure_as_int",
               "mai_accumulate", "rn_record", "MResetZ", "MResetZ_read",
               "CX", "CX_cz", "CX_h_after", "full_entangle", "fe_CX",
               "fe_measure", "fe_record", "done"}
    /\ slots \in [Indices -> {0, 1, NoBit}]
    /\ result \in 0 .. 511
    /\ attempts \in 0 .. (Len(script) + MaxAttempts)

\* ---------------------------------------------------------------- claims
InSampler == run \in {"ENTRYPOINT__main", "random_numbers_over_500"}

\* random_numbers_over_500 has left its record loop.
SamplerReturned == InSampler /\ pc \in {"main_return", "done"}

IsRecordCall(c) == c.op = "result_record_output"
IsMeasureCall(c) == c.op = "mresetz"
IsReadCall(c) == c.op = "read_result"
IsHCall(c) == c.op = "h"

\* The integer whose bits are the recorded values, first record most
\* significant.
RECURSIVE DecodeMsbFirst(_)
DecodeMsbFirst(out) ==
    IF out = <<>> THEN 0
    ELSE out[Len(out)].value + 2 * DecodeMsbFirst(SubSeq(out, 1, Len(out) - 1))

\* C1: once the sampler has recorded its 9 values, they decode (slot 8 most
\* significant, slot 0 least) to an integer in 500 .. 511.
C1_DecodedOver500 ==
    (InSampler /\ Len(output) = NumQubits)
        => /\ [k \in 1 .. NumQubits |-> output[k].slot]
                 = [k \in 1 .. NumQubits |-> NumQubits - k]
           /\ DecodeMsbFirst(output) \in 500 .. 511

C1_Witness ==
    /\ InSampler
    /\ script = <<>>
    /\ pc = "done"
    /\ Len(output) = NumQubits
    /\ DecodeMsbFirst(output) = 505

\* C2: the sampler records nothing during or after a rejected iteration; a
\* record exists only once an iteration with accumulator >= 500 has
\* completed, and every recorded value is the bit measured for that slot's
\* qubit in that accepted iteration.
C2_RecordsOnlyAccepted ==
    (InSampler /\ output # <<>>)
        => /\ pc \in {"rn_record", "main_return", "done"}
           /\ attempts >= 1
           /\ rejects = attempts - 1
           /\ result >= Threshold
           /\ result = mai_result
           /\ Len(bits) = NumQubits
           /\ \A q \in Indices : bits[q + 1].q = q
           /\ mai_result = DecodeMsbFirst(
                  [k \in 1 .. NumQubits |-> [value |-> bits[NumQubits + 1 - k].b]])
           /\ \A k \in 1 .. Len(output) :
                  output[k].value = bits[output[k].slot + 1].b

C2_Witness ==
    /\ InSampler
    /\ script = <<499, 0, 511>>
    /\ rejects = 2
    /\ Len(output) = NumQubits
    /\ \A k \in 1 .. NumQubits : output[k].value = 1

\* The record calls of a complete run of the sampler.
ExpectedRecords ==
    [k \in 1 .. NumQubits |->
        Call("result_record_output", NumQubits - k, NullLabel)]

\* C3: after the loop the sampler makes exactly 9 record calls, for slots
\* 8, 7, ..., 0 in that order, each once and with the null label; an
\* all-ones first attempt gives the order [8..0] with values all 1.
C3_RecordOrder ==
    InSampler =>
        LET recs == SelectSeq(trace, IsRecordCall) IN
        /\ Len(recs) <= NumQubits
        /\ recs = SubSeq(ExpectedRecords, 1, Len(recs))
        /\ Len(output) = Len(recs)
        /\ \A k \in 1 .. Len(output) :
              output[k].slot = recs[k].a /\ output[k].label = recs[k].b
        /\ (pc = "rn_record" => Len(recs) = TopIndex - i)
        /\ (SamplerReturned => Len(recs) = NumQubits)
        /\ (SamplerReturned /\ attempts = 1 /\ result = 511
               => \A k \in 1 .. NumQubits : output[k].value = 1)

C3_Witness ==
    /\ SamplerReturned
    /\ attempts = 1
    /\ result = 511
    /\ [k \in 1 .. NumQubits |-> output[k].slot] = <<8, 7, 6, 5, 4, 3, 2, 1, 0>>
    /\ [k \in 1 .. NumQubits |-> output[k].value] = <<1, 1, 1, 1, 1, 1, 1, 1, 1>>

\* The three intrinsic calls of CX(c, t).
CXTrace(c, t) == << Call("h", t, None), Call("cz", c, t), Call("h", t, None) >>

\* C4: one call CX(c, t) issues exactly apply-H(t), controlled-phase(c, t),
\* apply-H(t), in this order, and nothing else, for every pair (c, t).
C4_CXDecomposition ==
    (run = "CX") =>
        /\ trace = SubSeq(CXTrace(control, target), 1, Len(trace))
        /\ (pc = "CX" => Len(trace) = 0)
        /\ (pc = "CX_cz" => Len(trace) = 1)
        /\ (pc = "CX_h_after" => Len(trace) = 2)
        /\ (pc = "done" => Len(trace) = 3)
        /\ pc \in {"CX", "CX_cz", "CX_h_after", "done"}

C4_Witness ==
    /\ run = "CX"
    /\ pc = "done"
    /\ control = 3
    /\ target = 5
    /\ trace = << Call("h", 5, None), Call("cz", 3, 5), Call("h", 5, None) >>

\* C5: when the first k attempts are rejected and attempt k+1 is accepted,
\* the sampler has run exactly k+1 full iterations, made 9*(k+1)
\* measure-and-reset calls and then exactly 9 record calls; with the backend
\* scripted to 256 then 500 that is 2 iterations, 18 measurements, and the
\* records are the bits of 500.
C5_IterationCount ==
    SamplerReturned =>
        /\ attempts = rejects + 1
        /\ Len(SelectSeq(trace, IsHCall)) = NumQubits * (rejects + 1)
        /\ Len(SelectSeq(trace, IsMeasureCall)) = NumQubits * (rejects + 1)
        /\ Len(SelectSeq(trace, IsRecordCall)) = NumQubits
        /\ Len(trace) >= NumQubits
        /\ SubSeq(trace, Len(trace) - NumQubits + 1, Len(trace)) = ExpectedRecords
        /\ (script = <<256, 500>>
              => /\ attempts = 2
                 /\ Len(SelectSeq(trace, IsMeasureCall)) = 18
                 /\ DecodeMsbFirst(output) = 500)

C5_Witness ==
    /\ SamplerReturned
    /\ script = <<256, 500>>
    /\ rejects = 1
    /\ Len(SelectSeq(trace, IsMeasureCall)) = 18
    /\ [k \in 1 .. NumQubits |-> output[k].value] = <<1, 1, 1, 1, 1, 0, 1, 0, 0>>

\* The gate calls of full_entangle after its first n CX calls.
RECURSIVE EntangleGates(_)
EntangleGates(n) ==
    IF n = 0 THEN << Call("h", 0, None) >>
    ELSE EntangleGates(n - 1) \o CXTrace(n - 1, n)

\* The calls of the first n (measure, record) pairs of full_entangle.
RECURSIVE EntanglePairs(_)
EntanglePairs(n) ==
    IF n = 0 THEN <<>>
    ELSE EntanglePairs(n - 1)
         \o << Call("mresetz", NumQubits - n, NumQubits - n),
                Call("read_result", NumQubits - n, None),
                Call("result_record_output", NumQubits - n, NullLabel) >>

ExpectedEntangleTrace == EntangleGates(TopIndex) \o EntanglePairs(NumQubits)

\* C6: full_entangle issues one apply-H(0), then for i = 0..7 the calls
\* apply-H(i+1), controlled-phase(i, i+1), apply-H(i+1) (25 gate calls),
\* then for i = 8 down to 0 the measurement of qubit i into slot i (with
\* its read of slot i) immediately followed by the record of slot i; no
\* gate call follows the first measurement.
C6_EntangleTrace ==
    (run = "full_entangle") =>
        /\ Len(trace) <= Len(ExpectedEntangleTrace)
        /\ trace = SubSeq(ExpectedEntangleTrace, 1, Len(trace))
        /\ (pc = "done" => trace = ExpectedEntangleTrace)
        /\ (pc = "done" => Len(SelectSeq(trace, IsHCall)) = 17
                           /\ Len(trace) = 25 + 3 * NumQubits)
        /\ [k \in 1 .. Len(output) |-> output[k].slot]
              = [k \in 1 .. Len(output) |-> NumQubits - k]

C6_Witness ==
    /\ run = "full_entangle"
    /\ pc = "done"
    /\ Len(trace) = 52
    /\ trace[24] = Call("cz", 7, 8)
    /\ trace[26] = Call("mresetz", 8, 8)
    /\ Len(output) = NumQubits

\* C7: in both programs every record of slot i is preceded in the run by a
\* measurement MResetZ(i, i); no recorded slot is unwritten.
C7_MeasuredBeforeRecorded ==
    (output # <<>>) =>
        /\ \A k \in 1 .. Len(trace) :
              IsRecordCall(trace[k]) =>
                 \E j \in 1 .. (k - 1) :
                    trace[j] = Call("mresetz", trace[k].a, trace[k].a)
        /\ \A k \in 1 .. Len(output) : output[k].value \in {0, 1}

C7_Witness ==
    /\ run = "full_entangle"
    /\ Len(output) = 3
    /\ output[3].slot = 6
    /\ slots[5] = NoBit

\* An iteration of the sampler has just produced an accumulator >= 500.
AttemptAccepted ==
    /\ InSampler
    /\ pc = "measure_as_int"
    /\ i = NumQubits
    /\ mai_result >= Threshold

\* C8: if the backend eventually produces an attempt with accumulator
\* >= 500, the sampler eventually makes its 9 record calls and returns.
C8_EventuallyDone ==
    (<>AttemptAccepted) => <>(pc = "done" /\ Len(output) = NumQubits)

C8_Witness ==
    /\ run = "ENTRYPOINT__main"
    /\ pc = "done"
    /\ rejects >= 1
    /\ Len(output) = NumQubits

\* C9: the loop has no iteration cap: while no attempt has reached 500 the
\* sampler stays in Sampling with an empty output stream, and after any
\* number of rejected attempts the loop test starts the next attempt.
C9_NoIterationCap ==
    /\ []((InSampler /\ result < Threshold)
            => /\ output = <<>>
               /\ pc \notin {"rn_record", "main_return", "done"})
    /\ []((pc = "rn_while" /\ result < Threshold
              /\ attempts < Len(script) + MaxAttempts) => ENABLED rn_while)
    /\ [][(pc = "rn_while" /\ result < Threshold)
            => /\ pc' = "make_random_state"
               /\ attempts' = attempts + 1
               /\ output' = <<>>]_vars

C9_Witness ==
    /\ InSampler
    /\ pc = "make_random_state"
    /\ attempts = 3
    /\ rejects = 2
    /\ output = <<>>

\* The positions between the phases of a program: the loop test, the record
\* loop and the return of the sampler, the loop heads of full_entangle, the
\* end of the run.  The trace only grows by appending, so a property of
\* every call is checked on the call just made in every reachable state,
\* and on the whole trace at these positions.
Checkpoint ==
    pc \in {"rn_while", "rn_record", "main_return", "done", "fe_CX",
            "fe_measure"}

\* Every measure-and-reset in tr is followed at once by the read of its
\* slot, and every read follows a measure-and-reset of its slot.
MeasureReadPaired(tr) ==
    \A k \in 1 .. Len(tr) :
       /\ IsMeasureCall(tr[k])
             => /\ k < Len(tr)
                /\ tr[k + 1] = Call("read_result", tr[k].b, None)
       /\ IsReadCall(tr[k])
             => /\ k > 1
                /\ IsMeasureCall(tr[k - 1])
                /\ tr[k - 1].b = tr[k].a

\* C10: every MResetZ(q, s) issues measure-and-reset(q, s) immediately
\* followed by read-bit(s) and returns the bit then stored in slot s;
\* read-bit is called nowhere else, so outside a call in progress the
\* read-bit calls are as many as the measure-and-reset calls.
C10_MeasureThenRead ==
    LET n == Len(trace) IN
    /\ (n > 1 /\ IsMeasureCall(trace[n - 1]))
          => trace[n] = Call("read_result", trace[n - 1].b, None)
    /\ (n > 0 /\ IsReadCall(trace[n]))
          => /\ n > 1
             /\ IsMeasureCall(trace[n - 1])
             /\ trace[n - 1].b = trace[n].a
    /\ (pc = "MResetZ_read") <=> (n > 0 /\ IsMeasureCall(trace[n]))
    /\ Checkpoint
          => /\ MeasureReadPaired(trace)
             /\ Len(SelectSeq(trace, IsMeasureCall))
                   = Len(SelectSeq(trace, IsReadCall))
    /\ (pc \in {"mai_accumulate", "fe_record"})
          => /\ trace[n] = Call("read_result", slot, None)
             /\ trace[n - 1] = Call("mresetz", qubit, slot)
             /\ retval = slots[slot]
             /\ retval \in {0, 1}

C10_Witness ==
    /\ pc = "mai_accumulate"
    /\ attempts = 1
    /\ slot = 4
    /\ retval = 1
    /\ slots[4] = 1

\* The intrinsic calls of one Sampling iteration: apply-H on qubits 0..8,
\* then for each qubit i = 0..8 measure-and-reset(i, i) and read-bit(i).
IterationTrace ==
    [k \in 1 .. (3 * NumQubits) |->
        IF k <= NumQubits THEN Call("h", k - 1, None)
        ELSE IF (k - NumQubits) % 2 = 1
             THEN Call("mresetz", (k - NumQubits - 1) \div 2,
                                  (k - NumQubits - 1) \div 2)
             ELSE Call("read_result", (k - NumQubits - 1) \div 2, None)]

RECURSIVE Repeat(_, _)
Repeat(seq, n) == IF n = 0 THEN <<>> ELSE Repeat(seq, n - 1) \o seq

\* The intrinsic calls of a run of random_numbers_over_500 with n iterations.
SamplerTrace(n) == Repeat(IterationTrace, n) \o ExpectedRecords

IsCzCall(c) == c.op = "cz"

\* C11: a run started at ENTRYPOINT__main executes the rejection-sampling
\* program and nothing else: its intrinsic-call trace is the trace of
\* random_numbers_over_500, it never enters full_entangle or CX, and it
\* makes no controlled-phase call.
C11_EntryRunsSampler ==
    /\ InSampler =>
          /\ Len(trace) <= Len(SamplerTrace(attempts))
          /\ trace = SubSeq(SamplerTrace(attempts), 1, Len(trace))
          /\ (pc \in {"main_return", "done"} => trace = SamplerTrace(attempts))
    /\ (run = "ENTRYPOINT__main") =>
          /\ pc \notin {"full_entangle", "fe_CX", "fe_measure", "fe_record",
                         "CX", "CX_cz", "CX_h_after"}
          /\ SelectSeq(trace, IsCzCall) = <<>>
          /\ (pc = "done" => stack = <<>> /\ attempts >= 1)

C11_Witness ==
    /\ run = "ENTRYPOINT__main"
    /\ pc = "done"
    /\ script = <<>>
    /\ attempts = 1
    /\ result = 507
    /\ Len(trace) = 4 * NumQubits

\* The position of the first record call in the trace, 0 if there is none.
FirstRecord ==
    IF \E k \in 1 .. Len(trace) : IsRecordCall(trace[k])
    THEN CHOOSE k \in 1 .. Len(trace) :
            /\ IsRecordCall(trace[k])
            /\ \A j \in 1 .. (k - 1) : ~IsRecordCall(trace[j])
    ELSE 0

\* C12: in the sampler, once the first record call has been made no
\* apply-H, measure-and-reset or read-bit call is made again: every later
\* call is a record call, and the program then returns.
C12_NothingAfterRecord ==
    /\ []((InSampler /\ output # <<>>)
            => \A k \in FirstRecord .. Len(trace) : IsRecordCall(trace[k]))
    /\ [][(InSampler /\ output # <<>>)
            => \/ trace' = trace
               \/ /\ Len(trace') = Len(trace) + 1
                  /\ IsRecordCall(trace'[Len(trace')])]_vars
    /\ ((InSampler /\ output # <<>>) ~> (pc = "done" /\ Len(output) = NumQubits))

C12_Witness ==
    /\ InSampler
    /\ pc = "rn_record"
    /\ Len(output) = 4
    /\ i = 4
    /\ IsRecordCall(trace[Len(trace)])
    /\ IsReadCall(trace[Len(trace) - 4])

\* The calls of the Sampling iteration in progress (or just completed),
\* every iteration before it having made 9 apply-H and 9 MResetZ calls.
CurrentIteration ==
    SubSeq(trace, 3 * NumQubits * (attempts - 1) + 1, Len(trace))

\* C13: every Sampling iteration, the first and each repeat, makes 9
\* apply-H calls on qubits 0..8 in increasing order, all before its first
\* measurement, then 9 calls MResetZ(i, i) for i = 0..8 in increasing
\* order, each measuring qubit i into slot i.
C13_IterationShape ==
    (InSampler /\ attempts >= 1 /\ output = <<>>) =>
        LET seg == CurrentIteration
            hs == SelectSeq(seg, IsHCall)
            ms == SelectSeq(seg, IsMeasureCall)
            rs == SelectSeq(seg, IsReadCall)
        IN
        /\ Len(trace) >= 3 * NumQubits * (attempts - 1)
        /\ Len(seg) = Len(hs) + Len(ms) + Len(rs)
        /\ hs = [k \in 1 .. Len(hs) |-> Call("h", k - 1, None)]
        /\ ms = [k \in 1 .. Len(ms) |-> Call("mresetz", k - 1, k - 1)]
        /\ rs = [k \in 1 .. Len(rs) |-> Call("read_result", k - 1, None)]
        /\ Len(hs) <= NumQubits /\ Len(ms) <= NumQubits
        /\ (ms # <<>> => /\ Len(hs) = NumQubits
                          /\ \A k \in 1 .. NumQubits : IsHCall(seg[k]))
        /\ (pc = "make_random_state" => Len(hs) = i /\ ms = <<>>)
        /\ (pc = "measure_as_int" => Len(ms) = i /\ Len(rs) = i)
        /\ (pc = "MResetZ" => qubit = i /\ slot = i /\ Len(ms) = i)
        /\ (pc \in {"rn_while", "rn_record"}
              => Len(hs) = NumQubits /\ Len(ms) = NumQubits)

C13_Witness ==
    /\ InSampler
    /\ pc = "measure_as_int"
    /\ i = NumQubits
    /\ attempts = 2
    /\ Len(trace) = 6 * NumQubits
    /\ trace[3 * NumQubits + 1] = Call("h", 0, None)
    /\ trace[6 * NumQubits - 1] = Call("mresetz", 8, 8)

\* The sum of b * 2^q over the (qubit, bit) pairs of bs.
RECURSIVE WeightedSum(_)
WeightedSum(bs) ==
    IF bs = <<>> THEN 0
    ELSE bs[Len(bs)].b * Pow2(bs[Len(bs)].q)
         + WeightedSum(SubSeq(bs, 1, Len(bs) - 1))

\* C14: the value measure_as_int builds and returns is the sum over i of
\* b_i * 2^i of the bits MResetZ(i, i) returned in that call, so it lies
\* in 0 .. 511; it starts from 0 in every call and owes nothing to the
\* bits of an earlier iteration.
C14_AccumulatorIsSum ==
    InSampler =>
        /\ (pc = "measure_as_int"
              => /\ Len(bits) = i
                 /\ \A k \in 1 .. Len(bits) :
                       bits[k].q = k - 1 /\ bits[k].b \in {0, 1}
                 /\ mai_result = WeightedSum(bits)
                 /\ mai_result \in 0 .. (Pow2(i) - 1))
        /\ (pc = "mai_accumulate"
              => mai_result + retval * Pow2(i) = WeightedSum(bits))
        /\ ((pc = "rn_while" /\ attempts >= 1)
              => /\ Len(bits) = NumQubits
                 /\ result = WeightedSum(bits)
                 /\ result \in 0 .. 511)

C14_Witness ==
    /\ InSampler
    /\ pc = "rn_while"
    /\ script = <<499, 0, 511>>
    /\ attempts = 2
    /\ rejects = 2
    /\ result = 0

\* The 9-bit outcomes on which the loop test of line 53 ends the loop.
AcceptingValues == {r \in 0 .. 511 : ~LoopAgain(r)}

\* C15: an iteration ends the loop if and only if its accumulator is
\* >= 500: 500 is accepted, 499 is rejected and followed by a full new
\* iteration, and exactly the 12 values 500..511 of the 512 outcomes are
\* accepting.
C15_AcceptIffOver500 ==
    /\ []((pc = "rn_while")
            => /\ AcceptingValues = 500 .. 511
               /\ Cardinality(AcceptingValues) = 12
               /\ ~LoopAgain(500)
               /\ LoopAgain(499))
    /\ [][(pc = "rn_while" /\ attempts >= 1)
            => /\ (result >= 500) <=> (pc' = "rn_record")
               /\ (result < 500)
                     <=> (pc' = "make_random_state" /\ i' = 0
                            /\ attempts' = attempts + 1)]_vars
    /\ []((InSampler /\ pc = "rn_record") => result \in 500 .. 511)
    /\ []((InSampler /\ attempts >= 2 /\ pc = "rn_while")
            => /\ rejects >= attempts - 1
               /\ CurrentIteration = IterationTrace)

C15_Witness ==
    /\ InSampler
    /\ script = <<256, 500>>
    /\ pc = "rn_record"
    /\ result = 500
    /\ rejects = 1
    /\ i = TopIndex
    /\ output = <<>>

\* The circuit programs, run from the entry point or on their own.
InProgram == run \in {"ENTRYPOINT__main", "random_numbers_over_500",
                      "full_entangle"}

\* The operands of the call c are indices in 0..8, and a measure-and-reset
\* names the slot of its qubit.
OperandsInRange(c) ==
    /\ c.a \in Indices
    /\ (IsCzCall(c) \/ IsMeasureCall(c)) => c.b \in Indices
    /\ IsMeasureCall(c) => c.a = c.b

\* C16: in both circuit programs every qubit and slot reference passed to
\* an intrinsic call is an index in 0..8, the control and target of each
\* controlled-phase call included, and every measure-and-reset call names
\* the slot with the index of its qubit.
C16_IndicesInRange ==
    InProgram =>
        /\ (trace # <<>>) => OperandsInRange(trace[Len(trace)])
        /\ Checkpoint
              => \A k \in 1 .. Len(trace) : OperandsInRange(trace[k])
        /\ (pc \in {"MResetZ", "MResetZ_read"}
              => qubit \in Indices /\ slot = qubit)
        /\ (pc \in {"CX", "CX_cz", "CX_h_after"}
              => control \in Indices /\ target \in Indices
                 /\ target = control + 1)
        /\ \A k \in 1 .. Len(output) : output[k].slot \in Indices

C16_Witness ==
    /\ run = "full_entangle"
    /\ pc = "fe_measure"
    /\ i = 3
    /\ trace[24] = Call("cz", 7, 8)
    /\ trace[Len(trace) - 2] = Call("mresetz", 4, 4)

IsGateCall(c) == c.op \in {"h", "cz"}

\* The position of the last gate call in the trace, 0 if there is none: in
\* both programs a circuit run prepares with gates and then measures, so
\* the calls after it are the measurements of the circuit run in progress.
RECURSIVE LastGateUpTo(_)
LastGateUpTo(k) ==
    IF k = 0 \/ IsGateCall(trace[k]) THEN k ELSE LastGateUpTo(k - 1)

LastGate == LastGateUpTo(Len(trace))

\* C17: within one circuit run (one Sampling iteration, or one execution
\* of full_entangle) every slot is the target of at most one
\* measure-and-reset call.
C17_NoSlotRemeasured ==
    InProgram =>
        LET ms == SelectSeq(SubSeq(trace, LastGate + 1, Len(trace)),
                            IsMeasureCall)
        IN
        /\ Len(ms) <= NumQubits
        /\ Cardinality({ms[k].b : k \in 1 .. Len(ms)}) = Len(ms)
        /\ (InSampler /\ attempts >= 1 /\ Checkpoint
              => Len(SelectSeq(trace, IsMeasureCall))
                    = NumQubits * (attempts - 1) + Len(ms))

C17_Witness ==
    /\ InSampler
    /\ pc = "rn_while"
    /\ attempts = 2
    /\ Len(SelectSeq(trace, IsMeasureCall)) = 2 * NumQubits
    /\ Len(SelectSeq(SubSeq(trace, LastGate + 1, Len(trace)), IsMeasureCall))
          = NumQubits

\* The intrinsics the two circuit programs call.
CalledIntrinsics == {"h", "cz", "mresetz", "read_result", "result_record_output"}

\* C18: neither circuit program calls apply-X or record-array-output; the
\* output stream of a completed run holds exactly 9 scalar records and no
\* array record.
C18_NoXNoArrayRecord ==
    InProgram =>
        /\ (trace # <<>>) => trace[Len(trace)].op \in CalledIntrinsics
        /\ Checkpoint
              => \A k \in 1 .. Len(trace) :
                    /\ trace[k].op \in CalledIntrinsics
                    /\ trace[k] # Call("x", trace[k].a, None)
                    /\ trace[k] # Call("array_record_output", NumQubits,
                                       NullLabel)
        /\ (pc = "done"
              => /\ Len(SelectSeq(trace, IsRecordCall)) = NumQubits
                 /\ Len(output) = NumQubits
                 /\ \A k \in 1 .. NumQubits :
                       /\ output[k].slot = NumQubits - k
                       /\ output[k].value \in {0, 1}
                 /\ IsRecordCall(trace[Len(trace)]))

C18_Witness ==
    /\ run = "full_entangle"
    /\ pc = "done"
    /\ Len(output) = NumQubits
    /\ output[NumQubits].value = 1
    /\ output[1].value = 0

\* The position in tr of the last measure-and-reset of qubit q, 0 if none:
\* the qubits start in the reset state and measure-and-reset resets.
LastReset(tr, q) ==
    LET ks == {k \in 1 .. Len(tr) : IsMeasureCall(tr[k]) /\ tr[k].a = q}
    IN IF ks = {} THEN 0 ELSE CHOOSE k \in ks : \A j \in ks : j <= k

\* The number of apply-H calls qubit q received in tr since its last reset;
\* the qubit is in the reset state when there are none.
RECURSIVE HSinceResetUpTo(_, _, _)
HSinceResetUpTo(tr, q, k) ==
    IF k = 0 \/ (IsMeasureCall(tr[k]) /\ tr[k].a = q) THEN 0
    ELSE (IF tr[k] = Call("h", q, None) THEN 1 ELSE 0)
         + HSinceResetUpTo(tr, q, k - 1)

HSinceReset(tr, q) == HSinceResetUpTo(tr, q, Len(tr))

\* C19: in the sampler each qubit receives exactly one apply-H between two
\* consecutive resets: every apply-H (the call just made, in every
\* reachable state) found its qubit in the reset state, every
\* measure-and-reset found its qubit with exactly one apply-H since its
\* last reset, and all 9 qubits are in the reset state at the start of
\* every Sampling iteration and when the program returns.
C19_OneHPerReset ==
    InSampler =>
        LET n == Len(trace) IN
        /\ (n > 0 /\ IsHCall(trace[n]))
              => HSinceResetUpTo(trace, trace[n].a, n - 1) = 0
        /\ (n > 0 /\ IsMeasureCall(trace[n]))
              => /\ HSinceResetUpTo(trace, trace[n].a, n - 1) = 1
                 /\ HSinceReset(trace, trace[n].a) = 0
        /\ ((pc \in {"random_numbers_over_500", "rn_while", "rn_record",
                      "main_return", "done"}
               \/ (pc = "make_random_state" /\ i = 0)
               \/ (pc = "measure_as_int" /\ i = NumQubits))
              => \A q \in Indices : HSinceReset(trace, q) = 0)
        /\ ((pc = "measure_as_int" /\ i = 0)
              => \A q \in Indices : HSinceReset(trace, q) = 1)

C19_Witness ==
    /\ InSampler
    /\ pc = "MResetZ_read"
    /\ attempts = 2
    /\ qubit = 5
    /\ LastReset(SubSeq(trace, 1, Len(trace) - 1), 5) = NumQubits + 11
    /\ HSinceReset(trace, 6) = 1
====
